---------------------------- MODULE Spec2Model ----------------------------
(***************************************************************************)
(* A model of the flush lexer, src/src/lexing/lexer.rs.                    *)
(*                                                                         *)
(* The source text is a sequence of characters; a character is a string of *)
(* length one, except EAcute, which stands for a character that UTF-8      *)
(* encodes in two bytes.  The fields of struct Lexer are the variables     *)
(* program, file, tokens, position and line.  One call of tokenize is      *)
(* unrolled into steps: pc is the place of the call in the code, buffer is *)
(* the local accumulator of the running sub-scanner, result is the value   *)
(* the last call of tokenize returned.  starts, lexStart and lexLine are   *)
(* history variables: they record where lexemes began and are never read   *)
(* by the lexer's own steps.  So are returned (the values the calls of     *)
(* tokenize have returned, in order) and iterations (the turns the main    *)
(* loop has made in the running call).                                     *)
(*                                                                         *)
(* SpecTwin runs two Lexers on the same source one after the other:         *)
(* lexerNo is 1 or 2, step counts the steps of the running Lexer, and      *)
(* trace keeps what the first Lexer was after each of its steps, so that   *)
(* the second can be compared with it step by step.                        *)
(***************************************************************************)
EXTENDS Integers, Sequences, FiniteSets, TLC

VARIABLES program, file, tokens, position, line,
          pc, buffer, result, calls, starts, lexStart, lexLine,
          returned, iterations, lexerNo, step, trace

vars == <<program, file, tokens, position, line,
          pc, buffer, result, calls, starts, lexStart, lexLine,
          returned, iterations, lexerNo, step, trace>>

-----------------------------------------------------------------------------
(* Characters *)

NL == "\n"
QUOTE == "\""
HASH == "#"
DOT == "."
\* A character outside ASCII: one char, two bytes in UTF-8.
EAcute == "U+00E9"
\* Option::None of current(), previous() and advance().
NoChar == "<none>"

Digits == {"0", "1", "2", "3", "4", "5", "6", "7", "8", "9"}

Letters ==
  {"a", "b", "c", "d", "e", "f", "g", "h", "i", "j", "k", "l", "m",
   "n", "o", "p", "q", "r", "s", "t", "u", "v", "w", "x", "y", "z",
   "A", "B", "C", "D", "E", "F", "G", "H", "I", "J", "K", "L", "M",
   "N", "O", "P", "Q", "R", "S", "T", "U", "V", "W", "X", "Y", "Z"}

Structural == {"(", ")", "{", "}", "[", "]", ":", ";", ","}

Operators == {"+", "-", "*", "/", "%", "^", "="}

\* char::is_ascii_digit
IsAsciiDigit(c) == c \in Digits

\* char::is_ascii_alphanumeric
IsAsciiAlphanumeric(c) == c \in Digits \cup Letters

\* StructuralKind with the arms of the two closing brackets exchanged.
StructuralKindSwapped(c) ==
  CASE c = "(" -> "LParen"
    [] c = ")" -> "RParen"
    [] c = "{" -> "LBrace"
    [] c = "}" -> "RBracket"
    [] c = "[" -> "LBracket"
    [] c = "]" -> "RBrace"
    [] c = ":" -> "Colon"
    [] c = ";" -> "Semicolon"
    [] c = "," -> "Comma"

\* The TokenKind variant parse_token pushes for a structural character.
StructuralKind(c) ==
  CASE c = "(" -> "LParen"
    [] c = ")" -> "RParen"
    [] c = "{" -> "LBrace"
    [] c = "}" -> "RBrace"
    [] c = "[" -> "LBracket"
    [] c = "]" -> "RBracket"
    [] c = ":" -> "Colon"
    [] c = ";" -> "Semicolon"
    [] c = "," -> "Comma"

\* Number of bytes of a character in UTF-8 (String::len counts bytes).
Utf8Len(c) == IF c = EAcute THEN 2 ELSE 1

RECURSIVE ByteLen(_)
\* String::len: the length of the text in bytes.
ByteLen(s) == IF s = <<>> THEN 0 ELSE Utf8Len(Head(s)) + ByteLen(Tail(s))

-----------------------------------------------------------------------------
(* Inputs *)

\* Longest text over the whole alphabet.
MaxLen == 2
\* Longest text over the comment alphabet.
MaxCommentLen == 6
\* Longest text over the string alphabet.
MaxStringLen == 5
\* Longest text over the number alphabet.
MaxNumberLen == 4
\* Longest text over the identifier alphabet.
MaxIdentLen == 4
\* Longest text over the punctuation alphabet.
MaxPunctLen == 4
\* Number of calls of tokenize on one Lexer.
MaxCalls == 2
\* Longest text over the string alphabet that two Lexers are run on.
MaxTwinLen == 4

Strings(S, n) == UNION {[1..k -> S] : k \in 0..n}

AllChars ==
  Structural \cup Operators \cup
  {QUOTE, HASH, NL, " ", "\t", "\r", "0", "9", DOT, "d", "e", "f", "Z",
   "_", "\\", EAcute}

CommentChars == {HASH, NL, " ", "a", QUOTE}

StringChars == {QUOTE, "a", NL, HASH, "\\", EAcute}

NumberChars == {"0", "9", DOT}

IdentChars == {"d", "e", "f", "1", " "}

PunctChars == {"(", "]", ";", "+", "=", " ", "\t"}

\* The inputs of the tests of mod test.
TestPrograms ==
  { <<"#", " ", "h", "e", "l", "l", "o", ",", " ", "w", "o", "r", "l", "d",
      NL, "#", "l", "o", "r", "e", "m">>,
    <<"(", " ", "}", " ", "[", " ", ")", " ", "{", " ", "]">>,
    <<";", " ", ",", " ", ":">>,
    <<QUOTE, "H", "e", "l", "l", "o", ",", " ", "W", "o", "r", "l", "d", "!",
      QUOTE>>,
    <<QUOTE, "H", "e", "l", "l", "o", " ", "f", "l", "u", "s", "h">>,
    <<"3", "2", " ", "1", "8", ".", "2", "5">>,
    <<"d", "e", "f", " ", "u", "s", "e", "r">>,
    <<"+", " ", "/", " ", "*", " ", "-", " ", "=", " ", "%">> }

\* Digit runs around the largest u32, 4294967295.
WidePrograms ==
  { <<"4", "2", "9", "4", "9", "6", "7", "2", "9", "5">>,
    <<"4", "2", "9", "4", "9", "6", "7", "2", "9", "6">>,
    <<"0", "4", "2", "9", "4", "9", "6", "7", "2", "9", "5">>,
    <<"4", "2", "9", "4", "9", "6", "7", "3", "0", "0">>,
    <<"4", "2", "9", "5", "0", "0", "0", "0", "0", "0">>,
    <<"9", "9", "9", "9", "9", "9", "9", "9", "9", "9", "9">>,
    <<"4", "2", "9", "4", "9", "6", "7", "2", "9", "5", ".", "0">>,
    <<"1", "2", "3", "4", "5", "6", "7">> }

Programs ==
  Strings(AllChars, MaxLen) \cup Strings(CommentChars, MaxCommentLen)
    \cup Strings(StringChars, MaxStringLen)
    \cup Strings(NumberChars, MaxNumberLen)
    \cup Strings(IdentChars, MaxIdentLen)
    \cup Strings(PunctChars, MaxPunctLen)
    \cup TestPrograms \cup WidePrograms

Files == {"__test__", "main.fl"}

-----------------------------------------------------------------------------
(* Number parsing: str::parse::<u32> and str::parse::<f32> *)

DigitVal(c) ==
  CASE c = "0" -> 0 [] c = "1" -> 1 [] c = "2" -> 2 [] c = "3" -> 3
    [] c = "4" -> 4 [] c = "5" -> 5 [] c = "6" -> 6 [] c = "7" -> 7
    [] c = "8" -> 8 [] c = "9" -> 9

DigitChar(n) ==
  CASE n = 0 -> "0" [] n = 1 -> "1" [] n = 2 -> "2" [] n = 3 -> "3"
    [] n = 4 -> "4" [] n = 5 -> "5" [] n = 6 -> "6" [] n = 7 -> "7"
    [] n = 8 -> "8" [] n = 9 -> "9"

RECURSIVE ParseU32From(_, _, _, _)
\* raw.parse::<u32>() from character i on, the value read so far being
\* hi * 100000 + lo (two limbs: the value of a u32 does not fit the
\* model checker's integers).  Each digit does checked_mul(10) and
\* checked_add(digit); any other character is an error; the result is an
\* error when the value passes u32::MAX = 42949 * 100000 + 67295.
ParseU32From(raw, i, hi, lo) ==
  IF i > Len(raw) THEN [ok |-> TRUE, hi |-> hi, lo |-> lo]
  ELSE IF ~IsAsciiDigit(raw[i]) THEN [ok |-> FALSE, hi |-> 0, lo |-> 0]
  ELSE LET low == lo * 10 + DigitVal(raw[i])
           lo2 == low % 100000
           hi2 == hi * 10 + (low \div 100000)
       IN  IF hi2 > 42949 \/ (hi2 = 42949 /\ lo2 > 67295)
           THEN [ok |-> FALSE, hi |-> 0, lo |-> 0]
           ELSE ParseU32From(raw, i + 1, hi2, lo2)

\* raw.parse::<u32>(): an empty text is an error.
ParseU32(raw) ==
  IF raw = <<>> THEN [ok |-> FALSE, hi |-> 0, lo |-> 0]
  ELSE ParseU32From(raw, 1, 0, 0)

RECURSIVE NatDigits(_)
\* The decimal digits of a natural number, without leading zeros.
NatDigits(n) ==
  IF n < 10 THEN <<DigitChar(n)>>
  ELSE Append(NatDigits(n \div 10), DigitChar(n % 10))

RECURSIVE PadLeft(_, _)
PadLeft(ds, n) == IF Len(ds) >= n THEN ds ELSE PadLeft(<<"0">> \o ds, n)

\* The u32 of an Int token, written as its decimal numeral.
U32Numeral(hi, lo) ==
  IF hi = 0 THEN NatDigits(lo) ELSE NatDigits(hi) \o PadLeft(NatDigits(lo), 5)

RECURSIVE CountChar(_, _)
CountChar(s, c) ==
  IF s = <<>> THEN 0
  ELSE (IF Head(s) = c THEN 1 ELSE 0) + CountChar(Tail(s), c)

RECURSIVE StripLeadingZeros(_)
StripLeadingZeros(ds) ==
  IF Len(ds) > 1 /\ Head(ds) = "0" THEN StripLeadingZeros(Tail(ds)) ELSE ds

RECURSIVE StripTrailingZeros(_)
StripTrailingZeros(ds) ==
  IF ds # <<>> /\ ds[Len(ds)] = "0"
  THEN StripTrailingZeros(SubSeq(ds, 1, Len(ds) - 1)) ELSE ds

\* Index of the first c in s, Len(s) + 1 when there is none.
IndexOf(s, c) ==
  IF \E i \in 1..Len(s) : s[i] = c
  THEN CHOOSE i \in 1..Len(s) : s[i] = c /\ \A j \in 1..(i - 1) : s[j] # c
  ELSE Len(s) + 1

\* raw.parse::<f32>() of a text of digits and dots that begins with a digit:
\* digits, then optionally a dot and digits (both "1." and "1.5" parse); a
\* second dot is an error.  The value is kept as the decimal number the text
\* denotes, in lowest form (no leading zeros, no trailing fraction zeros);
\* the f32 is the nearest to it, and overflow gives infinity, not an error.
ParseF32(raw) ==
  IF CountChar(raw, DOT) > 1 THEN [ok |-> FALSE, val |-> <<>>]
  ELSE LET d == IndexOf(raw, DOT)
           int == StripLeadingZeros(SubSeq(raw, 1, d - 1))
           frac == StripTrailingZeros(SubSeq(raw, d + 1, Len(raw)))
       IN  [ok |-> TRUE,
            val |-> IF frac = <<>> THEN int ELSE int \o <<DOT>> \o frac]

-----------------------------------------------------------------------------
(* struct Lexer and its cursor primitives *)

\* self.program.chars().nth(i)
CharAt(i) == IF i >= 0 /\ i < Len(program) THEN program[i + 1] ELSE NoChar

\* Lexer::previous.  Every call follows an advance, so position >= 1; at
\* position 0 the subtraction would wrap (or panic in a debug build).
Previous == CharAt(position - 1)

\* Lexer::current
Current == CharAt(position)

\* Lexer::is_at_end: position against the length in bytes.
IsAtEnd == position >= ByteLen(program)

\* Lexer::advance: position += 1, at the end of the source too.
Advance == position' = position + 1

\* What that call of advance returns: previous() at the new position.
Advanced == Previous'

\* struct Token
Token(kind, val, ln) == [kind |-> kind, val |-> val, line |-> ln]

\* PushToken putting the new token at the front of the list.
PushTokenFront(kind, val, start) ==
  /\ tokens' = <<Token(kind, val, line)>> \o tokens
  /\ starts' = <<start>> \o starts

\* Lexer::push_token: the token carries the line counter's value of now.
\* start, the offset at which the lexeme began, goes to the history only.
PushToken(kind, val, start) ==
  /\ tokens' = Append(tokens, Token(kind, val, line))
  /\ starts' = Append(starts, start)

\* What tokenize has returned: nothing yet, Ok(tokens), Err(FlushError(file,
\* line, message, hint)), or no return at all, the call having panicked.
NoResult ==
  [kind |-> "None", tokens |-> <<>>, file |-> "", line |-> 0, msg |-> "",
   hint |-> ""]

OkResult(toks) ==
  [kind |-> "Ok", tokens |-> toks, file |-> "", line |-> 0, msg |-> "",
   hint |-> ""]

FlushError(f, ln, msg, hint) ==
  [kind |-> "Err", tokens |-> <<>>, file |-> f, line |-> ln, msg |-> msg,
   hint |-> hint]

PanicResult ==
  [kind |-> "Panic", tokens |-> <<>>, file |-> "", line |-> 0, msg |-> "",
   hint |-> ""]

IllegalNewline == "Ilegal newline in string"
Unterminated == "Unterminated string"
NewlineHint == "use \\n instead"
NoHint == ""

\* Lexer::new
Init ==
  /\ program \in Programs
  /\ file \in Files
  /\ tokens = <<>>
  /\ position = 0
  /\ line = 1
  /\ pc = "new"
  /\ buffer = <<>>
  /\ result = NoResult
  /\ calls = 0
  /\ starts = <<>>
  /\ lexStart = 0
  /\ lexLine = 1
  /\ returned = <<>>
  /\ iterations = 0
  /\ lexerNo = 1
  /\ step = 0
  /\ trace = <<>>

-----------------------------------------------------------------------------
(* Lexer::tokenize and what it calls *)

\* A call of tokenize, on a new Lexer or on one whose last call returned.
Tokenize ==
  /\ pc \in {"new", "returned"}
  /\ calls < MaxCalls
  /\ pc' = "tokenize"
  /\ calls' = calls + 1
  /\ result' = NoResult
  /\ UNCHANGED <<program, file, tokens, position, line, buffer, starts,
                 lexStart, lexLine>>

\* The head of the loop of tokenize: while !self.is_at_end(); after the
\* loop, Ok(self.tokens.clone()).
TokenizeLoop ==
  /\ pc = "tokenize"
  /\ IF IsAtEnd
     THEN /\ result' = OkResult(tokens)
          /\ pc' = "returned"
     ELSE /\ pc' = "parse_token"
          /\ UNCHANGED result
  /\ UNCHANGED <<program, file, tokens, position, line, buffer, calls, starts,
                 lexStart, lexLine>>

\* parse_token: advance, then the dispatch on the character consumed.  The
\* sub-scanners with a loop run in steps of their own.
ParseToken ==
  /\ pc = "parse_token"
  /\ UNCHANGED <<program, file, result, calls>>
  /\ Advance
  /\ lexStart' = position
  /\ lexLine' = line
  /\ LET character == Advanced
     IN  CASE character = NoChar ->
                /\ pc' = "tokenize"
                /\ UNCHANGED <<tokens, starts, line, buffer>>
           [] character \in Structural ->
                /\ PushToken(StructuralKind(character), <<>>, position)
                /\ pc' = "tokenize"
                /\ UNCHANGED <<line, buffer>>
           [] character \in Operators ->
                /\ PushToken("Operator", <<character>>, position)
                /\ pc' = "tokenize"
                /\ UNCHANGED <<line, buffer>>
           [] character = QUOTE ->
                /\ pc' = "parse_string"
                /\ buffer' = <<>>
                /\ UNCHANGED <<tokens, starts, line>>
           [] character = HASH ->
                /\ pc' = "skip_comment"
                /\ UNCHANGED <<tokens, starts, line, buffer>>
           [] character = NL ->
                /\ line' = line + 1
                /\ pc' = "tokenize"
                /\ UNCHANGED <<tokens, starts, buffer>>
           [] IsAsciiDigit(character) ->
                /\ pc' = "parse_number"
                /\ buffer' = <<character>>
                /\ UNCHANGED <<tokens, starts, line>>
           [] IsAsciiAlphanumeric(character) /\ ~IsAsciiDigit(character) ->
                /\ pc' = "parse_identifier"
                /\ buffer' = <<character>>
                /\ UNCHANGED <<tokens, starts, line>>
           [] OTHER ->
                /\ pc' = "tokenize"
                /\ UNCHANGED <<tokens, starts, line, buffer>>

\* skip_comment, the loop condition: !self.is_at_end() && self.advance() !=
\* Some('\n').  When it fails the loop is left and self.line += 1.
SkipCommentTest ==
  /\ pc = "skip_comment"
  /\ UNCHANGED <<program, file, tokens, buffer, result, calls, starts,
                 lexStart, lexLine>>
  /\ IF IsAtEnd
     THEN /\ line' = line + 1
          /\ pc' = "tokenize"
          /\ UNCHANGED position
     ELSE /\ Advance
          /\ IF Advanced = NL
             THEN /\ line' = line + 1
                  /\ pc' = "tokenize"
             ELSE /\ pc' = "skip_comment_body"
                  /\ UNCHANGED line

\* SkipCommentBody with an if in place of the while: after one turn the
\* skipper is left.
SkipCommentBodyOnce ==
  /\ pc = "skip_comment_body"
  /\ position' = position + 1
  /\ line' = line + 1
  /\ pc' = "tokenize"
  /\ UNCHANGED <<program, file, tokens, buffer, result, calls, starts,
                 lexStart, lexLine>>

\* skip_comment, the loop body: self.advance(), whatever the character is.
SkipCommentBody ==
  /\ pc = "skip_comment_body"
  /\ Advance
  /\ pc' = "skip_comment"
  /\ UNCHANGED <<program, file, tokens, line, buffer, result, calls, starts,
                 lexStart, lexLine>>

\* NewlineError with the file label passed as the hint too.
NewlineErrorFileHint == FlushError(file, line, IllegalNewline, file)

\* NewlineError with the newline counted in the line.
NewlineErrorNextLine == FlushError(file, line + 1, IllegalNewline, NewlineHint)

\* The error of parse_string at a newline.
NewlineError == FlushError(file, line, IllegalNewline, NewlineHint)

\* UnterminatedError with the hint of the other error.
UnterminatedErrorHinted == FlushError(file, line, Unterminated, NewlineHint)

\* The error of parse_string when no closing quote is found.
UnterminatedError == FlushError(file, line, Unterminated, NoHint)

\* ReturnErr handing the tokens collected so far to the caller.
ReturnErrPartial(err) ==
  /\ result' = [err EXCEPT !.tokens = tokens]
  /\ pc' = "returned"
  /\ buffer' = <<>>
  /\ UNCHANGED <<tokens, starts, position>>

\* The ? of parse_token and of tokenize: the error of the sub-scanner is
\* what tokenize returns.
ReturnErr(err) ==
  /\ result' = err
  /\ pc' = "returned"
  /\ buffer' = <<>>
  /\ UNCHANGED <<tokens, starts, position>>

\* StringClose with the closing quote kept in the payload.
StringCloseKeepsQuote ==
  IF Current # QUOTE
  THEN ReturnErr(UnterminatedError)
  ELSE /\ position' = position + 1
       /\ PushToken("String", Append(buffer, QUOTE), lexStart)
       /\ pc' = "tokenize"
       /\ buffer' = <<>>
       /\ UNCHANGED result

\* parse_string after its loop: the error when the current character is not
\* the closing quote, else the quote is consumed and the token pushed.
StringClose ==
  IF Current # QUOTE
  THEN ReturnErr(UnterminatedError)
  ELSE /\ Advance
       /\ PushToken("String", buffer, lexStart)
       /\ pc' = "tokenize"
       /\ buffer' = <<>>
       /\ UNCHANGED result

\* parse_string, one turn of its loop (the condition holds).  A newline
\* returns the error; None breaks to the code after the loop; any other
\* character is pushed to the buffer and consumed.
ParseStringLoop ==
  /\ pc = "parse_string"
  /\ ~IsAtEnd /\ Current # QUOTE
  /\ CASE Current = NL -> ReturnErr(NewlineError)
       [] Current = NoChar -> StringClose
       [] OTHER ->
            /\ buffer' = Append(buffer, Current)
            /\ Advance
            /\ UNCHANGED <<tokens, starts, pc, result>>
  /\ UNCHANGED <<program, file, line, calls, lexStart, lexLine>>

\* parse_string, the loop condition fails.
ParseStringEnd ==
  /\ pc = "parse_string"
  /\ IsAtEnd \/ Current = QUOTE
  /\ StringClose
  /\ UNCHANGED <<program, file, line, calls, lexStart, lexLine>>

\* The loop of parse_number goes on: not at the end, and the current
\* character is a dot or a digit.
NumberContinues ==
  /\ ~IsAtEnd
  /\ Current # NoChar
  /\ (Current = DOT \/ IsAsciiDigit(Current))

\* parse_number, one turn of its loop.
ParseNumberLoop ==
  /\ pc = "parse_number"
  /\ NumberContinues
  /\ buffer' = Append(buffer, Current)
  /\ Advance
  /\ UNCHANGED <<program, file, tokens, line, pc, result, calls, starts,
                 lexStart, lexLine>>

\* parse_number after its loop: Int when the text parses as a u32, else
\* Float of the text parsed as an f32, whose unwrap panics on an error.
ParseNumberEnd ==
  /\ pc = "parse_number"
  /\ ~NumberContinues
  /\ LET int == ParseU32(buffer)
         float == ParseF32(buffer)
     IN  IF int.ok
         THEN /\ PushToken("Int", U32Numeral(int.hi, int.lo), lexStart)
              /\ pc' = "tokenize"
              /\ UNCHANGED result
         ELSE IF float.ok
         THEN /\ PushToken("Float", float.val, lexStart)
              /\ pc' = "tokenize"
              /\ UNCHANGED result
         ELSE /\ pc' = "panicked"
              /\ result' = PanicResult
              /\ UNCHANGED <<tokens, starts>>
  /\ buffer' = <<>>
  /\ UNCHANGED <<program, file, position, line, calls, lexStart, lexLine>>

\* IdentifierContinues with is_ascii_alphabetic: a digit ends the run.
IdentifierContinuesLetters ==
  /\ ~IsAtEnd
  /\ Current # NoChar
  /\ Current \in Letters

\* The loop of parse_identifier goes on.
IdentifierContinues ==
  /\ ~IsAtEnd
  /\ Current # NoChar
  /\ IsAsciiAlphanumeric(Current)

\* parse_identifier, one turn of its loop.
ParseIdentifierLoop ==
  /\ pc = "parse_identifier"
  /\ IdentifierContinues
  /\ buffer' = Append(buffer, Current)
  /\ Advance
  /\ UNCHANGED <<program, file, tokens, line, pc, result, calls, starts,
                 lexStart, lexLine>>

\* ParseIdentifierEnd without the arm of the keyword.
ParseIdentifierEndNoKeyword ==
  /\ pc = "parse_identifier"
  /\ ~IdentifierContinues
  /\ PushToken("Ident", buffer, lexStart)
  /\ pc' = "tokenize"
  /\ buffer' = <<>>
  /\ UNCHANGED <<program, file, position, line, result, calls, lexStart,
                 lexLine>>

\* parse_identifier after its loop: Def for "def", else Ident of the text.
ParseIdentifierEnd ==
  /\ pc = "parse_identifier"
  /\ ~IdentifierContinues
  /\ IF buffer = <<"d", "e", "f">>
     THEN PushToken("Def", <<>>, lexStart)
     ELSE PushToken("Ident", buffer, lexStart)
  /\ pc' = "tokenize"
  /\ buffer' = <<>>
  /\ UNCHANGED <<program, file, position, line, result, calls, lexStart,
                 lexLine>>

\* The history of that step: the value a call returns is appended to
\* returned; iterations is 0 when a call begins and counts its calls of
\* parse_token.
History ==
  /\ returned' = IF pc # "returned" /\ pc' = "returned"
                 THEN Append(returned, result') ELSE returned
  /\ iterations' = IF pc' = "tokenize" /\ pc \in {"new", "returned"} THEN 0
                   ELSE IF pc = "parse_token" THEN iterations + 1
                   ELSE iterations

\* A step of the only Lexer there is.
Single == History /\ UNCHANGED <<lexerNo, step, trace>>

Next ==
  \/ Tokenize /\ Single
  \/ TokenizeLoop /\ Single
  \/ ParseToken /\ Single
  \/ SkipCommentTest /\ Single
  \/ SkipCommentBody /\ Single
  \/ ParseStringLoop /\ Single
  \/ ParseStringEnd /\ Single
  \/ ParseNumberLoop /\ Single
  \/ ParseNumberEnd /\ Single
  \/ ParseIdentifierLoop /\ Single
  \/ ParseIdentifierEnd /\ Single

Spec == Init /\ [][Next]_vars

-----------------------------------------------------------------------------
(* Two Lexers on one source *)

\* What is compared of a Lexer after a step.
Snapshot ==
  [position |-> position, line |-> line, tokens |-> tokens, pc |-> pc,
   result |-> result, file |-> file]

\* The running Lexer can take no further step.
Finished == pc = "panicked" \/ (pc = "returned" /\ calls = MaxCalls)

\* A step of the running Lexer; the first Lexer's state goes to the trace.
Twin ==
  /\ History
  /\ lexerNo' = lexerNo
  /\ step' = step + 1
  /\ trace' = IF lexerNo = 1 THEN Append(trace, Snapshot') ELSE trace

\* Lexer::new on the same source with any file label, once the first Lexer
\* is finished.
SecondLexer ==
  /\ lexerNo = 1
  /\ Finished
  /\ lexerNo' = 2
  /\ step' = 0
  /\ file' \in Files
  /\ tokens' = <<>>
  /\ position' = 0
  /\ line' = 1
  /\ pc' = "new"
  /\ buffer' = <<>>
  /\ result' = NoResult
  /\ calls' = 0
  /\ starts' = <<>>
  /\ lexStart' = 0
  /\ lexLine' = 1
  /\ returned' = <<>>
  /\ iterations' = 0
  /\ UNCHANGED <<program, trace>>

NextTwin ==
  \/ Tokenize /\ Twin
  \/ TokenizeLoop /\ Twin
  \/ ParseToken /\ Twin
  \/ SkipCommentTest /\ Twin
  \/ SkipCommentBody /\ Twin
  \/ ParseStringLoop /\ Twin
  \/ ParseStringEnd /\ Twin
  \/ ParseNumberLoop /\ Twin
  \/ ParseNumberEnd /\ Twin
  \/ ParseIdentifierLoop /\ Twin
  \/ ParseIdentifierEnd /\ Twin
  \/ SecondLexer

\* The sources the two Lexers are run on.
TwinPrograms ==
  Strings(AllChars, MaxLen) \cup Strings(StringChars, MaxTwinLen)
    \cup TestPrograms

InitTwin == Init /\ program \in TwinPrograms

SpecTwin == InitTwin /\ [][NextTwin]_vars

-----------------------------------------------------------------------------
(* Properties *)

\* The first call of tokenize has returned.
FirstReturned == pc = "returned" /\ calls = 1

\* Number of newline characters of the source before offset off.
NewlinesBefore(off) == Cardinality({j \in 1..off : program[j] = NL})

\* C1: when tokenize succeeds, the line of every returned token is 1 plus
\* the number of newlines of the source before the token's first character,
\* also for tokens that follow comments.
C1_TokenLineIsSourceLine ==
  (FirstReturned /\ result.kind = "Ok") =>
    \A i \in 1..Len(result.tokens) :
      result.tokens[i].line = 1 + NewlinesBefore(starts[i])

\* Offset just after the first newline at or after offset off, the length
\* of the source when no newline follows.
LineEnd(off) ==
  IF \E j \in (off + 1)..Len(program) : program[j] = NL
  THEN CHOOSE j \in (off + 1)..Len(program) :
         program[j] = NL /\ \A k \in (off + 1)..(j - 1) : program[k] # NL
  ELSE Len(program)

\* The comment skipper has just finished the comment that begins at lexStart.
CommentSkipped ==
  pc = "tokenize" /\ position > lexStart /\ CharAt(lexStart) = HASH

Min(a, b) == IF a < b THEN a ELSE b

\* C2: for a # dispatched by the main loop the scanner skips exactly the
\* characters from the # through the next newline (through the end of the
\* input when there is none), and dispatch resumes right after that newline.
C2_CommentEndsAtLineEnd ==
  CommentSkipped => Min(position, Len(program)) = LineEnd(lexStart)

Whitespace == {" ", "\t", "\r", NL}

RECURSIVE BlankFrom(_, _)
\* From character i on (inComment: i lies in a comment), the source holds
\* only whitespace and comments, each comment ended by a newline.
BlankFrom(i, inComment) ==
  IF i > Len(program) THEN ~inComment
  ELSE IF inComment THEN BlankFrom(i + 1, program[i] # NL)
  ELSE IF program[i] = HASH THEN BlankFrom(i + 1, TRUE)
  ELSE program[i] \in Whitespace /\ BlankFrom(i + 1, FALSE)

OnlyBlanksAndComments == BlankFrom(1, FALSE)

\* C3: on a source of only whitespace and newline-terminated comments no
\* token is ever pushed, nothing goes wrong, and tokenize returns the empty
\* token sequence.
C3_BlankSourceNoTokens ==
  OnlyBlanksAndComments =>
    /\ tokens = <<>>
    /\ pc # "panicked"
    /\ result.kind # "Err"
    /\ (pc = "returned" => result.kind = "Ok" /\ result.tokens = <<>>)

\* C3's case: a returned scan of two comments or more, a quote in a
\* comment, and a newline consumed inside the comment skipper's loop (the
\* line counter is behind the number of newlines).
C3_Witness ==
  /\ FirstReturned
  /\ OnlyBlanksAndComments
  /\ Cardinality({i \in 1..Len(program) : program[i] = HASH}) >= 2
  /\ \E i \in 1..Len(program) : program[i] = QUOTE
  /\ line < 1 + NewlinesBefore(Len(program))

\* The token the data model gives for a structural or operator character.
KindOfChar ==
  {<<"(", "LParen">>, <<")", "RParen">>, <<"{", "LBrace">>,
   <<"}", "RBrace">>, <<"[", "LBracket">>, <<"]", "RBracket">>,
   <<":", "Colon">>, <<";", "Semicolon">>, <<",", "Comma">>,
   <<"+", "Operator">>, <<"-", "Operator">>, <<"*", "Operator">>,
   <<"/", "Operator">>, <<"%", "Operator">>, <<"^", "Operator">>,
   <<"=", "Operator">>}

PunctuationOnly ==
  \A i \in 1..Len(program) :
    program[i] \in Structural \cup Operators \cup {" ", "\t"}

\* The characters of the source that are neither space nor tab, in order.
NonBlank == SelectSeq(program, LAMBDA c : c \notin {" ", "\t"})

\* C4: on a source of structural characters, operator characters, spaces
\* and tabs, tokenize returns one token for each non-blank character, in
\* source order: the structural token without payload, or Operator(c).
C4_OneTokenPerPunctuation ==
  (FirstReturned /\ PunctuationOnly) =>
    /\ result.kind = "Ok"
    /\ Len(result.tokens) = Len(NonBlank)
    /\ \A i \in 1..Len(NonBlank) :
         LET c == NonBlank[i]
             t == result.tokens[i]
         IN  /\ <<c, t.kind>> \in KindOfChar
             /\ t.val = (IF c \in Operators THEN <<c>> ELSE <<>>)

\* C4's case: a returned scan with a structural character, an operator, a
\* blank between tokens, and three tokens or more.
C4_Witness ==
  /\ FirstReturned
  /\ PunctuationOnly
  /\ Len(NonBlank) >= 3
  /\ Len(NonBlank) < Len(program)
  /\ \E i \in 1..Len(program) : program[i] \in Structural
  /\ \E i \in 1..Len(program) : program[i] \in Operators

\* The source is one string literal: a quote, a body without quote and
\* without newline, a quote.
IsStringLiteral ==
  /\ Len(program) >= 2
  /\ program[1] = QUOTE
  /\ program[Len(program)] = QUOTE
  /\ \A i \in 2..(Len(program) - 1) : program[i] \notin {QUOTE, NL}

StringBody == SubSeq(program, 2, Len(program) - 1)

\* C5: scanning quote + body + quote, the body holding neither quote nor
\* newline, returns exactly one token, String(body), the body unchanged.
C5_StringRoundTrip ==
  (FirstReturned /\ IsStringLiteral) =>
    /\ result.kind = "Ok"
    /\ Len(result.tokens) = 1
    /\ result.tokens[1].kind = "String"
    /\ result.tokens[1].val = StringBody

\* C5's case: a returned scan of a literal whose body holds a # and a
\* backslash.
C5_Witness ==
  /\ FirstReturned
  /\ IsStringLiteral
  /\ \E i, j \in 2..(Len(program) - 1) : program[i] = HASH /\ program[j] = "\\"

\* The first call has ended in the string sub-scanner: the last character
\* the main loop dispatched, at lexStart, is an opening quote after which
\* no closing quote comes before the place the scan stopped at.
NoCharAfter(c, off) == \A j \in (off + 2)..Len(program) : program[j] # c

QuoteDispatched == position > lexStart /\ CharAt(lexStart) = QUOTE

IsUnterminatedError(r) ==
  r.kind = "Err" /\ r.msg = "Unterminated string" /\ r.hint = ""
    /\ r.tokens = <<>>

\* C6 as stated: an opening quote dispatched with no further quote in the
\* rest of the input gives the unterminated-string error, whatever the
\* remaining characters are.
C6_UnclosedAlwaysUnterminated ==
  (FirstReturned /\ QuoteDispatched /\ NoCharAfter(QUOTE, lexStart)) =>
    IsUnterminatedError(result)

\* C6 amended: an opening quote dispatched with neither a quote nor a
\* newline in the rest of the input gives the unterminated-string error,
\* without hint.
C6_UnclosedOnOneLineUnterminated ==
  (FirstReturned /\ QuoteDispatched /\ NoCharAfter(QUOTE, lexStart)
     /\ NoCharAfter(NL, lexStart)) =>
    IsUnterminatedError(result)

\* C6's case: the unterminated-string error for a literal that opens after
\* the start of the source and holds a # .
C6_Witness ==
  /\ FirstReturned
  /\ QuoteDispatched
  /\ lexStart > 0
  /\ NoCharAfter(QUOTE, lexStart)
  /\ NoCharAfter(NL, lexStart)
  /\ \E j \in (lexStart + 2)..Len(program) : program[j] = HASH
  /\ result.kind = "Err"

\* A newline comes after the opening quote at off, and no quote between.
NewlineBeforeNextQuote(off) ==
  \E j \in (off + 2)..Len(program) :
    program[j] = NL /\ \A k \in (off + 2)..(j - 1) : program[k] # QUOTE

\* C7: an opening quote dispatched with a newline before the next quote
\* gives the illegal-newline error, with the file label of the Lexer, a
\* hint, and the value the line counter had when the quote was dispatched.
C7_NewlineInStringError ==
  (FirstReturned /\ QuoteDispatched /\ NewlineBeforeNextQuote(lexStart)) =>
    /\ result.kind = "Err"
    /\ result.msg = "Ilegal newline in string"
    /\ result.file = file
    /\ result.hint # ""
    /\ result.line = lexLine

\* C7's case: the error for a literal opened on a later line than the first.
C7_Witness ==
  /\ FirstReturned
  /\ QuoteDispatched
  /\ NewlineBeforeNextQuote(lexStart)
  /\ lexLine >= 2
  /\ result.kind = "Err"

\* C8: in the step in which parse_string returns an error, tokenize returns
\* an error, no token sequence goes to the caller, and the cursor stays at
\* the place the error was detected.
C8_ErrorAbortsScan ==
  [][(pc = "parse_string" /\ pc' # "parse_string" /\ tokens' = tokens) =>
       /\ pc' = "returned"
       /\ result'.kind = "Err"
       /\ result'.file = file
       /\ result'.msg \in {"Ilegal newline in string", "Unterminated string"}
       /\ result'.tokens = <<>>
       /\ position' = position
       /\ line' = line]_vars

\* C8's case: an error returned after tokens had been collected.
C8_Witness ==
  /\ FirstReturned
  /\ result.kind = "Err"
  /\ Len(tokens) >= 2

\* The number lexeme that begins at offset off: the longest run of digits
\* and dots from there.
NumberRun(off) ==
  LET last == CHOOSE e \in off..Len(program) :
                /\ \A k \in (off + 1)..e : program[k] \in Digits \cup {DOT}
                /\ (e < Len(program) => program[e + 1] \notin Digits \cup {DOT})
  IN  SubSeq(program, off + 1, last)

U32MaxNumeral == <<"4", "2", "9", "4", "9", "6", "7", "2", "9", "5">>

\* a <= b for two numerals of the same length.
NumeralLeq(a, b) ==
  \/ a = b
  \/ \E i \in 1..Len(a) :
       /\ DigitVal(a[i]) < DigitVal(b[i])
       /\ \A k \in 1..(i - 1) : a[k] = b[k]

\* The value of a run of digits is at most 4294967295.
FitsU32(ds) ==
  LET n == StripLeadingZeros(ds)
  IN  Len(n) < 10 \/ (Len(n) = 10 /\ NumeralLeq(n, U32MaxNumeral))

\* C9: the number sub-scanner emits exactly one token for every number
\* lexeme: Int of the decimal value exactly when the run has no dot and
\* the value is at most 4294967295, Float when the run is an overflowing
\* digit run or has exactly one dot.
C9_NumberClassification ==
  [][(pc = "parse_number" /\ pc' # "parse_number") =>
       LET run == NumberRun(lexStart)
           dots == CountChar(run, DOT)
           t == tokens'[Len(tokens')]
       IN  /\ Len(tokens') = Len(tokens) + 1
           /\ (t.kind = "Int") <=> (dots = 0 /\ FitsU32(run))
           /\ t.kind = "Int" => t.val = StripLeadingZeros(run)
           /\ ((dots = 0 /\ ~FitsU32(run)) \/ dots = 1) => t.kind = "Float"
           /\ t.kind \in {"Int", "Float"}]_vars

\* C10: every call of tokenize ends with a token sequence or with one of
\* the two errors; no number lexeme ends it in another way.
C10_OutcomeClosed ==
  /\ pc # "panicked"
  /\ result.kind \in {"None", "Ok", "Err"}
  /\ result.kind = "Err" =>
       result.msg \in {"Ilegal newline in string", "Unterminated string"}

\* The identifier lexeme that begins at offset off: the longest run of
\* ASCII letters and digits from there.
IdentRun(off) ==
  LET last == CHOOSE e \in off..Len(program) :
                /\ \A k \in (off + 1)..e : program[k] \in Digits \cup Letters
                /\ (e < Len(program) =>
                      program[e + 1] \notin Digits \cup Letters)
  IN  SubSeq(program, off + 1, last)

\* C11: a letter dispatched by the main loop starts the identifier
\* sub-scanner, which consumes the whole run of letters and digits and
\* emits exactly one token for it: Def when the run is exactly def, else
\* Ident with the text of the run.
C11_IdentifierMaximalMunch ==
  [][/\ (pc = "parse_token" /\ CharAt(position) \in Letters) =>
          pc' = "parse_identifier"
     /\ (pc = "parse_identifier" /\ pc' # "parse_identifier") =>
          LET run == IdentRun(lexStart)
              t == tokens'[Len(tokens')]
          IN  /\ Len(tokens') = Len(tokens) + 1
              /\ position' = lexStart + Len(run)
              /\ IF run = <<"d", "e", "f">>
                 THEN t.kind = "Def" /\ t.val = <<>>
                 ELSE t.kind = "Ident" /\ t.val = run]_vars

\* C11's case: a returned scan with an Ident that begins with def and goes
\* on with a letter or a digit.
C11_Witness ==
  /\ FirstReturned
  /\ \E i \in 1..Len(tokens) :
       /\ tokens[i].kind = "Ident"
       /\ Len(tokens[i].val) >= 4
       /\ SubSeq(tokens[i].val, 1, 3) = <<"d", "e", "f">>

\* C14: a call of advance with position at or past the end of the source
\* changes nothing.  Stated for the second advance of a turn of the comment
\* skipper, a call that is made whatever the position is.
C14_AdvanceAtEndIsNoOp ==
  [][(pc = "skip_comment_body" /\ position >= Len(program)) =>
       /\ position' = position
       /\ line' = line
       /\ tokens' = tokens]_vars

\* C15: a step never changes a token already pushed and pushes at most one
\* token, which ends the turn of the main loop it was made in; the offsets
\* at which the tokens begin increase strictly and their lines never
\* decrease.
C15_TokensAppendOnly ==
  [][/\ Len(tokens') \in {Len(tokens), Len(tokens) + 1}
     /\ SubSeq(tokens', 1, Len(tokens)) = tokens
     /\ SubSeq(starts', 1, Len(starts)) = starts
     /\ Len(starts') = Len(tokens')
     /\ tokens' # tokens =>
          /\ pc \in {"parse_token", "parse_string", "parse_number",
                     "parse_identifier"}
          /\ pc' = "tokenize"
     /\ \A i \in 1..(Len(tokens') - 1) :
          /\ starts'[i] < starts'[i + 1]
          /\ tokens'[i].line <= tokens'[i + 1].line
     /\ (pc' = "returned" /\ result'.kind = "Ok") =>
          result'.tokens = tokens']_vars

\* C15's case: a returned sequence of three tokens or more on two lines or
\* more.
C15_Witness ==
  /\ FirstReturned
  /\ result.kind = "Ok"
  /\ Len(result.tokens) >= 3
  /\ result.tokens[1].line < result.tokens[Len(result.tokens)].line

\* C16: in every state, a String payload holds neither quote nor newline,
\* an Ident payload is a non-empty run of ASCII letters and digits that
\* begins with a letter and is not def, an Operator payload is one of the
\* seven operator characters, and every line is at least 1.
C16_TokensWellFormed ==
  \A i \in 1..Len(tokens) :
    LET t == tokens[i]
    IN  /\ t.line >= 1
        /\ t.kind = "String" =>
             \A k \in 1..Len(t.val) : t.val[k] \notin {QUOTE, NL}
        /\ t.kind = "Ident" =>
             /\ Len(t.val) >= 1
             /\ \A k \in 1..Len(t.val) : t.val[k] \in Digits \cup Letters
             /\ t.val[1] \in Letters
             /\ t.val # <<"d", "e", "f">>
        /\ t.kind = "Operator" =>
             Len(t.val) = 1 /\ t.val[1] \in {"+", "-", "*", "/", "%", "^", "="}

\* C16's case: an Ident with a digit in it, followed by another token.
C16_Witness ==
  \E i \in 1..(Len(tokens) - 1) :
    /\ tokens[i].kind = "Ident"
    /\ \E k \in 1..Len(tokens[i].val) : tokens[i].val[k] \in Digits

\* C19: is_at_end holds exactly when position is at least the number of
\* characters of the source, that is exactly when current() is none; so
\* the main loop never runs a turn in which advance returns none.
C19_EndMeasuredInCharacters ==
  /\ IsAtEnd <=> position >= Len(program)
  /\ (position >= Len(program)) <=> (Current = NoChar)
  /\ pc = "parse_token" => Current # NoChar

\* C12: a second Lexer on the same source, compared after each of its
\* steps with the first Lexer after as many steps, has the same position,
\* line, token list and place in the code, and the same result but for the
\* file of an error, which is the Lexer's own label; with the same label
\* the results are equal; and it is finished after as many steps.
C12_TwinLexersAgree ==
  (lexerNo = 2 /\ step >= 1) =>
    /\ step <= Len(trace)
    /\ LET first == trace[step]
       IN  /\ position = first.position
           /\ line = first.line
           /\ tokens = first.tokens
           /\ pc = first.pc
           /\ result.kind = first.result.kind
           /\ result.tokens = first.result.tokens
           /\ result.line = first.result.line
           /\ result.msg = first.result.msg
           /\ result.hint = first.result.hint
           /\ result.kind = "Err" =>
                result.file = file /\ first.result.file = first.file
           /\ file = first.file => result = first.result
    /\ Finished => step = Len(trace)

\* C12's case: the second Lexer, under another label than the first, has
\* returned an error after pushing a token.
C12_Witness ==
  /\ lexerNo = 2
  /\ step >= 1
  /\ step <= Len(trace)
  /\ file # trace[step].file
  /\ pc = "returned"
  /\ result.kind = "Err"
  /\ result.hint # ""
  /\ Len(tokens) >= 1

\* C13: every turn of the main loop and every turn of a loop of a
\* sub-scanner moves position forward, and a call of tokenize makes at most
\* as many turns of the main loop as the source has characters.
C13_ScanEndsWithinLength ==
  [][/\ pc = "parse_token" => position' > position
     /\ (pc \in {"parse_string", "parse_number", "parse_identifier"}
           /\ pc' = pc) => position' > position
     /\ (pc = "skip_comment" /\ pc' = "skip_comment_body") =>
          position' > position
     /\ pc = "skip_comment_body" => position' > position
     /\ iterations' <= Len(program)]_vars

\* C17: a second call of tokenize on the same Lexer returns what the first
\* call returned, and no token sequence after an error.
C17_TokenizeIdempotent ==
  Len(returned) >= 2 =>
    /\ returned[2] = returned[1]
    /\ returned[1].kind = "Err" => returned[2].kind # "Ok"

\* C18: position stays between 0 and the number of characters of the source
\* plus 1; only the second advance of a turn of the comment skipper moves it
\* past the number of characters; the sub-scanners that begin with
\* previous() run at position 1 or more.
C18_CursorBound ==
  [][/\ 0 <= position' /\ position' <= Len(program) + 1
     /\ (position' > Len(program) /\ position' # position) =>
          pc = "skip_comment_body"
     /\ pc' \in {"parse_number", "parse_identifier"} => position' >= 1]_vars

=============================================================================
